---- MODULE Spec2Model ----
(***************************************************************************)
(* Model of the lesson-08 database example (examples/lesson-08-database/   *)
(* main.go): the relational store as the schema of setup_test_db.sql       *)
(* defines it, the repositories, WithTransaction and                      *)
(* TaskService.CreateTaskWithCategories, run by concurrent request         *)
(* goroutines.                                                             *)
(*                                                                         *)
(* The repositories are built on the pool handle sql.DB, so each of their *)
(* statements runs in its own auto-committed transaction; only the         *)
(* statements executed on the sql.Tx handle belong to the transaction      *)
(* that WithTransaction begins.  Each action below is one statement (or    *)
(* one Begin / Commit / Rollback) of one call.                             *)
(***************************************************************************)
EXTENDS Integers, Sequences, FiniteSets

\* ------------------------------------------------------------------ bounds
NumCalls == 2
MaxNames == 2
MaxFaults == 1

Procs == 1..NumCalls
Names == {"A", "B"}
UserIds == {"u1", "u2", "u3"}

\* all category-name lists of a CreateTaskRequest, up to MaxNames entries
NameLists == UNION {[1..n -> Names] : n \in 0..MaxNames}

NoCategory == <<0, "">>
NoTask == [id |-> 0, user_id |-> "", completed |-> FALSE, categories |-> {}]
NoRequest == [userID |-> "", names |-> <<>>]

VARIABLES
    users,            \* table users: rows [id, is_active]
    tasks,            \* table tasks (committed rows): [id, user_id, completed]
    categories,       \* table categories (committed rows): [id, name, user_id]
    task_categories,  \* table task_categories (committed rows): [task_id, category_id]
    frame,            \* the locals of each call in progress:
                      \*   pc        position in CreateTaskWithCategories / WithTransaction
                      \*   req       the arguments [userID, names]
                      \*   idx       index of the range loop over req.CategoryNames
                      \*   category  id of the category variable of the loop body
                      \*   fn        how the unit of work ended [status, err]
                      \*   pending   task_categories rows written through tx, uncommitted
    tx,               \* state of each call's sql.Tx: "none", "open", "committed", "rolledback"
    rbErr,            \* TRUE when tx.Rollback() itself returned an error
    ret,              \* what the call returned: [status, err, task]
    submitted,        \* history: the owner and the set of names each call was given
    faults,           \* number of environment faults so far (driver errors, uuid panics)
    op,               \* the last direct call of a repository, a handler or the
                      \* JWT service, with its arguments and what it returned
    now,              \* the wall clock (time.Now), in hours
    tokens,           \* the token strings handed out or forged so far
    hreq,             \* the locals of each request a Handler of main.go is serving
    memTasks,         \* the package-level slice tasks of the in-memory variant
    handlers,         \* the TaskHandler values built over a MemoryStorage, each
                      \* with the ids of the tasks created through it (history)
    mreq              \* the locals of each MemoryStorage call in progress

vars == <<users, tasks, categories, task_categories, frame, tx, rbErr, ret,
          submitted, faults, op, now, tokens, hreq, memTasks, handlers, mreq>>

\* the in-memory variant of the task API
memVars == <<memTasks, handlers, mreq>>

\* what CreateTaskWithCategories does not touch
repoVars == <<op, now, tokens, hreq, memVars>>

\* the locals of the CreateTaskWithCategories calls
callVars == <<frame, tx, rbErr, ret, submitted>>

NoOp == [name |-> "none"]
NoHReq == [pc |-> "idle"]
NoMReq == [pc |-> "idle"]

\* ------------------------------------------------------------ the schema
UserExists(us, id) == \E u \in us : u.id = id

\* tasks.user_id / categories.user_id REFERENCES users(id)
ViolatesUserFK_Never(us, userID) == FALSE

ViolatesUserFK(us, userID) == ~UserExists(us, userID)

\* categories: UNIQUE(name, user_id)
ViolatesUniqueNameUser(cats, name, userID) ==
    \E c \in cats : c.name = name /\ c.user_id = userID

\* ------------------------------------------------------- the repositories
\* taskRepository.Create as called by the service: the row it inserts
NewTaskRow(id, userID) == [id |-> id, user_id |-> userID, completed |-> FALSE]

\* GetByName with the user_id condition left out of the WHERE clause
GetByNameRows_AnyUser(cats, name, userID) ==
    {c \in cats : c.name = name}

\* categoryRepository.GetByName: the rows WHERE name = $1 AND user_id = $2
GetByNameRows(cats, name, userID) ==
    {c \in cats : c.name = name /\ c.user_id = userID}

NewCategoryRow(id, name, userID) == [id |-> id, name |-> name, user_id |-> userID]

\* INSERT INTO task_categories ... ON CONFLICT DO NOTHING
InsertLink(rows, taskID, categoryID) ==
    rows \cup {[task_id |-> taskID, category_id |-> categoryID]}

\* the join with the task_id condition left out
TaskCategories_AnyTask(cats, links, taskID) ==
    {c \in cats : \E l \in links : l.category_id = c.id}

\* taskRepository.GetByID: the task row LEFT JOINed with its categories
TaskCategories(cats, links, taskID) ==
    {c \in cats : \E l \in links : l.task_id = taskID /\ l.category_id = c.id}

TaskFound(ts, taskID) == \E t \in ts : t.id = taskID

GetByID(ts, cats, links, taskID) ==
    LET t == CHOOSE t \in ts : t.id = taskID
    IN  [id |-> t.id, user_id |-> t.user_id, completed |-> t.completed,
         categories |-> TaskCategories(cats, links, taskID)]

\* taskRepository.GetByUserID without filters: the user's visible tasks
GetByUserID(ts, cats, links, userID) ==
    {GetByID(ts, cats, links, t.id) : t \in {t \in ts : t.user_id = userID}}

\* categoryRepository.GetByUserID
CategoriesByUserID(cats, userID) == {c \in cats : c.user_id = userID}

\* ---------------------------------------------------- transaction manager
\* a WithTransaction that does not roll back
Rollback_Skipped(t) == t

\* tx.Rollback(): the transaction is over whether or not Rollback reports
\* an error
Rollback(t) == IF t = "open" THEN "rolledback" ELSE t

\* a WithTransaction that returns the error of a failed Rollback instead
ReturnedError_RollbackWins(fnErr, rollbackFailed) ==
    IF rollbackFailed THEN "rollback failed" ELSE fnErr

\* the error WithTransaction returns after fn returned fnErr
ReturnedError(fnErr, rollbackFailed) == fnErr

\* ------------------------------------------------------------------ Init
NoFrame == [pc |-> "idle", req |-> NoRequest, idx |-> 0, category |-> NoCategory,
            fn |-> [status |-> "none", err |-> ""], pending |-> {}]

\* a goroutine that has returned keeps no locals
DoneFrame == [NoFrame EXCEPT !.pc = "done"]

Init ==
    /\ users = {[id |-> "u1", is_active |-> TRUE], [id |-> "u2", is_active |-> FALSE]}
    /\ tasks = {}
    /\ categories = {}
    /\ task_categories = {}
    /\ frame = [p \in Procs |-> NoFrame]
    /\ tx = [p \in Procs |-> "none"]
    /\ rbErr = [p \in Procs |-> FALSE]
    /\ ret = [p \in Procs |-> [status |-> "none", err |-> "", task |-> NoTask]]
    /\ submitted = [p \in Procs |-> [userID |-> "", names |-> {}]]
    /\ faults = 0
    /\ op = NoOp
    /\ now = 0
    /\ tokens = {}
    /\ hreq = [p \in Procs |-> NoHReq]
    /\ memTasks = <<>>
    /\ handlers = <<>>
    /\ mreq = [p \in Procs |-> NoMReq]

pc(p) == frame[p].pc
InProgress(p) == pc(p) \notin {"idle", "done"}
Range(s) == {s[i] : i \in 1..Len(s)}

\* the unit of work ends (returns an error, returns nil, or panics)
FnEnds(f, status, err) ==
    [f EXCEPT !.pc = "txEnd", !.fn = [status |-> status, err |-> err]]

\* top of the range loop, entered with index i
LoopHead(f, i) ==
    IF i > Len(f.req.names)
    THEN FnEnds([f EXCEPT !.idx = i], "ok", "")
    ELSE [f EXCEPT !.idx = i, !.pc = "getByName"]

Step(p, f) == frame' = [frame EXCEPT ![p] = f]

Returns(p, status, err, task) ==
    /\ frame' = [frame EXCEPT ![p] = DoneFrame]
    /\ ret' = [ret EXCEPT ![p] = [status |-> status, err |-> err, task |-> task]]

\* an environment fault (driver or connection error, failing random source)
Fault == faults < MaxFaults /\ faults' = faults + 1

\* ----------------------------------------------------------------- steps
\* CreateTaskWithCategories is called; WithTransaction runs db.Begin().
\* Calls are numbered in the order in which they begin.
Call(p, userID, names) ==
    /\ pc(p) = "idle"
    /\ \A q \in Procs : q < p => pc(q) # "idle"
    /\ submitted' = [submitted EXCEPT ![p] = [userID |-> userID, names |-> Range(names)]]
    /\ \/ /\ tx' = [tx EXCEPT ![p] = "open"]
          /\ Step(p, [frame[p] EXCEPT !.pc = "createTask",
                                      !.req = [userID |-> userID, names |-> names],
                                      !.fn = [status |-> "running", err |-> ""]])
          /\ UNCHANGED <<ret, faults>>
       \/ /\ Fault
          /\ Returns(p, "err", "begin failed", NoTask)
          /\ UNCHANGED tx
    /\ UNCHANGED <<users, tasks, categories, task_categories, rbErr>>
    /\ UNCHANGED repoVars

\* task = &Task{ID: uuid.New()...}; s.taskRepo.Create(ctx, task)
CreateTask(p) ==
    /\ pc(p) = "createTask"
    /\ LET f == frame[p]
       IN  \/ /\ Fault
              /\ Step(p, FnEnds(f, "panic", "uuid"))
              /\ UNCHANGED tasks
           \/ /\ ViolatesUserFK(users, f.req.userID)
              /\ Step(p, FnEnds(f, "err", "foreign key violation"))
              /\ UNCHANGED <<tasks, faults>>
           \/ /\ Fault
              /\ Step(p, FnEnds(f, "err", "driver error"))
              /\ UNCHANGED tasks
           \/ /\ ~ViolatesUserFK(users, f.req.userID)
              /\ tasks' = tasks \cup {NewTaskRow(p, f.req.userID)}
              /\ Step(p, LoopHead(f, 1))
              /\ UNCHANGED faults
    /\ UNCHANGED <<users, categories, task_categories, tx, rbErr, ret, submitted>>
    /\ UNCHANGED repoVars

\* category, err := s.categoryRepo.GetByName(ctx, categoryName, userID)
GetByName(p) ==
    /\ pc(p) = "getByName"
    /\ LET f == frame[p]
           rows == GetByNameRows(categories, f.req.names[f.idx], f.req.userID)
       IN  \/ /\ rows # {}
              /\ Step(p, [f EXCEPT !.pc = "link",
                                   !.category = (CHOOSE c \in rows : TRUE).id])
              /\ UNCHANGED faults
           \/ /\ rows = {}
              /\ Step(p, [f EXCEPT !.pc = "createCategory"])
              /\ UNCHANGED faults
           \/ /\ rows # {}
              /\ Fault
              /\ Step(p, [f EXCEPT !.pc = "createCategory"])
    /\ UNCHANGED <<users, tasks, categories, task_categories, tx, rbErr, ret,
                   submitted>>
    /\ UNCHANGED repoVars

\* category = &Category{ID: uuid.New()...}; s.categoryRepo.Create(ctx, category)
CreateCategory(p) ==
    /\ pc(p) = "createCategory"
    /\ LET f == frame[p]
           name == f.req.names[f.idx]
           userID == f.req.userID
       IN  \/ /\ Fault
              /\ Step(p, FnEnds(f, "panic", "uuid"))
              /\ UNCHANGED categories
           \/ /\ ViolatesUniqueNameUser(categories, name, userID)
              /\ Step(p, FnEnds(f, "err", "unique violation"))
              /\ UNCHANGED <<categories, faults>>
           \/ /\ Fault
              /\ Step(p, FnEnds(f, "err", "driver error"))
              /\ UNCHANGED categories
           \/ /\ ~ViolatesUniqueNameUser(categories, name, userID)
              /\ categories' = categories \cup {NewCategoryRow(<<p, name>>, name, userID)}
              /\ Step(p, [f EXCEPT !.pc = "link", !.category = <<p, name>>])
              /\ UNCHANGED faults
    /\ UNCHANGED <<users, tasks, task_categories, tx, rbErr, ret, submitted>>
    /\ UNCHANGED repoVars

\* tx.ExecContext(ctx, "INSERT INTO task_categories ... ON CONFLICT DO NOTHING")
LinkCategory(p) ==
    /\ pc(p) = "link"
    /\ LET f == frame[p]
       IN  \/ /\ Fault
              /\ Step(p, FnEnds(f, "err", "driver error"))
           \/ /\ Step(p, LoopHead([f EXCEPT !.pending = InsertLink(f.pending, p, f.category)],
                                   f.idx + 1))
              /\ UNCHANGED faults
    /\ UNCHANGED <<users, tasks, categories, task_categories, tx, rbErr, ret,
                   submitted>>
    /\ UNCHANGED repoVars

\* tx.Rollback() in the error branch or in the deferred recover
RollsBack(p) ==
    /\ tx' = [tx EXCEPT ![p] = Rollback(tx[p])]
    /\ \/ UNCHANGED <<rbErr, faults>>
       \/ Fault /\ rbErr' = [rbErr EXCEPT ![p] = TRUE]

\* WithTransaction after fn: the deferred recover, the error branch, Commit
TxEnd(p) ==
    /\ pc(p) = "txEnd"
    /\ LET f == frame[p]
       IN  \/ /\ f.fn.status = "panic"
              /\ RollsBack(p)
              /\ Returns(p, "panic", f.fn.err, NoTask)
              /\ UNCHANGED task_categories
           \/ /\ f.fn.status = "err"
              /\ RollsBack(p)
              /\ Returns(p, "err", ReturnedError(f.fn.err, rbErr'[p]), NoTask)
              /\ UNCHANGED task_categories
           \/ /\ f.fn.status = "ok"
              /\ tx' = [tx EXCEPT ![p] = "committed"]
              /\ task_categories' = task_categories \cup f.pending
              /\ Step(p, [f EXCEPT !.pc = "reread", !.pending = {}])
              /\ UNCHANGED <<rbErr, ret, faults>>
           \/ /\ f.fn.status = "ok"     \* Commit fails: the transaction is aborted,
              /\ Fault                  \* the driver's error is returned as it is
              /\ tx' = [tx EXCEPT ![p] = "rolledback"]
              /\ Returns(p, "err", "driver error", NoTask)
              /\ UNCHANGED <<task_categories, rbErr>>
    /\ UNCHANGED <<users, tasks, categories, submitted>>
    /\ UNCHANGED repoVars

\* return s.taskRepo.GetByID(ctx, task.ID)
Reread(p) ==
    /\ pc(p) = "reread"
    /\ \/ /\ TaskFound(tasks, p)
          /\ Returns(p, "ok", "", GetByID(tasks, categories, task_categories, p))
          /\ UNCHANGED faults
       \/ /\ Fault
          /\ Returns(p, "err", "failed to get task", NoTask)
    /\ UNCHANGED <<users, tasks, categories, task_categories, tx, rbErr,
                   submitted>>
    /\ UNCHANGED repoVars

Next ==
    \E p \in Procs :
        \/ \E userID \in UserIds, names \in NameLists : Call(p, userID, names)
        \/ CreateTask(p)
        \/ GetByName(p)
        \/ CreateCategory(p)
        \/ LinkCategory(p)
        \/ TxEnd(p)
        \/ Reread(p)

Spec == Init /\ [][Next]_vars

\* the same calls made one after the other: a call begins only when no other
\* call is in progress
NextSeq ==
    \E p \in Procs :
        \/ /\ \A q \in Procs : ~InProgress(q)
           /\ \E userID \in UserIds, names \in NameLists : Call(p, userID, names)
        \/ CreateTask(p)
        \/ GetByName(p)
        \/ CreateCategory(p)
        \/ LinkCategory(p)
        \/ TxEnd(p)
        \/ Reread(p)

SpecSeq == Init /\ [][NextSeq]_vars

TypeOK ==
    /\ \A p \in Procs : pc(p) \in {"idle", "createTask", "getByName", "createCategory",
                                   "link", "txEnd", "reread", "done", "blocked"}
    /\ \A p \in Procs : tx[p] \in {"none", "open", "committed", "rolledback"}
    /\ faults \in 0..MaxFaults

\* ------------------------------------------------------------- properties
Done(p) == pc(p) = "done"
Failed(p) == Done(p) /\ ret[p].status = "err"
Succeeded(p) == Done(p) /\ ret[p].status = "ok"

\* the id of the task a call inserts is the call's number
TaskOf(p) == p
LinksOf(links, taskID) == {l \in links : l.task_id = taskID}
CreatedBy(cats, p) == {c \in cats : c.id[1] = p}
NamesOf(cats) == {c.name : c \in cats}
TaskVisible(p) ==
    \E t \in GetByUserID(tasks, categories, task_categories, submitted[p].userID) :
        t.id = TaskOf(p)
NamesSubmittedBy(userID) ==
    UNION {submitted[p].names : p \in {q \in Procs : submitted[q].userID = userID}}
OwnerValid(userID) == \E u \in users : u.id = userID /\ u.is_active

\* C1: a call that returned an error has left no task behind: the task it
\* inserted is not among the tasks GetByUserID returns for its user.
C1_FailedCallLeavesNoTask ==
    \A p \in Procs : Failed(p) => ~TaskVisible(p)

\* C2: a call that returned an error has left none of the category rows it
\* created in the categories table.
C2_FailedCallLeavesNoCategory ==
    \A p \in Procs : Failed(p) => CreatedBy(categories, p) = {}

\* C3: whenever a reader can see a task (GetByID finds it), the task carries a
\* link for every category name of its request.
C3_TaskVisibleOnlyWithLinks ==
    \A p \in Procs :
        TaskFound(tasks, TaskOf(p)) =>
            NamesOf(GetByID(tasks, categories, task_categories, TaskOf(p)).categories)
                = submitted[p].names

\* C4 (first half): never two category rows with the same name and user.
OneCategoryPerNameUser ==
    \A c1, c2 \in categories :
        (c1.name = c2.name /\ c1.user_id = c2.user_id) => c1 = c2

\* C4: at most one category row per (name, user), and once every call has
\* finished (no environment fault having occurred) each existing user has as
\* many category rows as distinct names were submitted for that user.
C4_CategoryCountEqualsNamesSubmitted ==
    /\ OneCategoryPerNameUser
    /\ ((\A p \in Procs : Done(p)) /\ faults = 0) =>
          \A u \in users :
              Cardinality(CategoriesByUserID(categories, u.id))
                  = Cardinality(NamesSubmittedBy(u.id))

\* C5: without environment faults no call ends with the unique-constraint
\* violation of a concurrent category insert: the loser re-fetches instead.
C5_DuplicateKeyNotSurfaced ==
    \A p \in Procs :
        (Done(p) /\ faults = 0) => ret[p].err # "unique violation"

\* C6: after successful calls made one after the other, every user has exactly
\* one category row per distinct name submitted for that user, and every
\* committed task has exactly one link per distinct name of its own request.
Committed(p) == tx[p] = "committed" /\ pc(p) \in {"reread", "done"}
RequestNames(p) == IF pc(p) = "reread" THEN Range(frame[p].req.names) ELSE submitted[p].names
C6_SequentialCallsReuseCategories ==
    (\A p \in Procs : pc(p) = "idle" \/ pc(p) = "reread" \/ Succeeded(p)) =>
        /\ \A u \in UserIds :
              /\ NamesOf(CategoriesByUserID(categories, u)) = NamesSubmittedBy(u)
              /\ Cardinality(CategoriesByUserID(categories, u))
                    = Cardinality(NamesSubmittedBy(u))
        /\ \A p \in Procs :
              Committed(p) =>
                  /\ NamesOf(TaskCategories(categories, task_categories, TaskOf(p)))
                        = RequestNames(p)
                  /\ Cardinality(LinksOf(task_categories, TaskOf(p)))
                        = Cardinality(RequestNames(p))

\* a second call has reused the category of an earlier one, and a call whose
\* request repeats a name has committed a single link for it
C6_Witness ==
    /\ Succeeded(1)
    /\ pc(2) = "reread"
    /\ frame[2].req.names = <<"A", "A">>
    /\ submitted[1] = [userID |-> "u1", names |-> {"A"}]
    /\ submitted[2].userID = "u1"
    /\ Cardinality(categories) = 1
    /\ Cardinality(LinksOf(task_categories, TaskOf(2))) = 1

\* C7: a call whose owner is missing or inactive inserts no task, category or
\* link row and (no environment fault having occurred) returns OwnerNotFound.
C7_InvalidOwnerRejected ==
    \A p \in Procs :
        (pc(p) # "idle" /\ ~OwnerValid(submitted[p].userID)) =>
            /\ ~TaskFound(tasks, TaskOf(p))
            /\ CreatedBy(categories, p) = {}
            /\ LinksOf(task_categories, TaskOf(p)) = {}
            /\ (Done(p) /\ faults = 0) =>
                   (ret[p].status = "err" /\ ret[p].err = "owner not found")

\* C8: a successful call returns its own task with completed = false and with
\* one category per distinct name of the request, and no others.
C8_ReturnsTaskWithRequestedCategories ==
    \A p \in Procs :
        Succeeded(p) =>
            /\ ret[p].task.id = TaskOf(p)
            /\ ret[p].task.user_id = submitted[p].userID
            /\ ret[p].task.completed = FALSE
            /\ NamesOf(ret[p].task.categories) = submitted[p].names
            /\ Cardinality(ret[p].task.categories) = Cardinality(submitted[p].names)

\* two calls of one user running concurrently both returned a task with the
\* two requested categories
C8_Witness ==
    /\ Succeeded(1) /\ Succeeded(2)
    /\ submitted[1] = submitted[2]
    /\ Cardinality(ret[1].task.categories) = 2
    /\ Cardinality(ret[2].task.categories) = 2

C10_NoTransactionLeftOpen ==
    \A p \in Procs :
        /\ (pc(p) \in {"reread", "done"} /\ tx[p] # "none") =>
               tx[p] \in {"committed", "rolledback"}
        /\ (Done(p) /\ ret[p].status = "panic") =>
               (tx[p] = "rolledback" /\ LinksOf(task_categories, TaskOf(p)) = {})

\* a unit of work panicked after writing a link through the transaction
C10_Witness ==
    \E p \in Procs :
        /\ Done(p)
        /\ ret[p].status = "panic"
        /\ tx[p] = "rolledback"
        /\ CreatedBy(categories, p) # {}

\* ------------------------------------------------- WithTransaction errors
\* the errors a unit of work can end with
UnitOfWorkErrors == {"foreign key violation", "unique violation", "driver error"}

\* an error that reports a failed rollback together with the error that
\* caused the rollback
RollbackWrapped(cause) ==
    CASE cause = "foreign key violation" -> "rollback failed: foreign key violation"
      [] cause = "unique violation" -> "rollback failed: unique violation"
      [] OTHER -> "rollback failed: driver error"

\* C11: when the unit of work returns an error and the rollback fails too,
\* the error WithTransaction returns reports both the rollback failure and the
\* original error.
C11_RollbackFailureReported ==
    [][\A p \in Procs :
          (pc(p) = "txEnd" /\ frame[p].fn.status = "err" /\ rbErr'[p]) =>
              ret'[p].err = RollbackWrapped(frame[p].fn.err)]_vars

\* C12: when the unit of work returns no error the transaction is committed,
\* never rolled back by WithTransaction; a failed commit is returned as an
\* error that no unit of work returns.
C12_CommitFailureDistinct ==
    [][\A p \in Procs :
          (pc(p) = "txEnd" /\ frame[p].fn.status = "ok" /\ frame'[p].pc # "txEnd") =>
              /\ rbErr'[p] = rbErr[p]
              /\ \/ tx'[p] = "committed" /\ frame'[p].pc = "reread"
                 \/ /\ frame'[p].pc = "done"
                    /\ ret'[p].status = "err"
                    /\ ret'[p].err \notin UnitOfWorkErrors]_vars

\* ------------------------------------------- task repository: the listing
MaxRows == 2      \* rows a specification of the repositories inserts into tasks
MaxStr == 2       \* length of a title and of a search term
MaxStamps == 3    \* timestamps the database hands out (CURRENT_TIMESTAMP)

Alphabet == {"a", "A", "_"}
Strings == UNION {[1..n -> Alphabet] : n \in 0..MaxStr}

\* ILIKE compares ignoring letter case
Lower(c) == IF c = "A" THEN "a" ELSE c
LowerStr(s) == [i \in 1..Len(s) |-> Lower(s[i])]

\* the LIKE operator of PostgreSQL: in the pattern % stands for any sequence
\* of characters and _ for any one character
RECURSIVE Like(_, _)
Like(s, pat) ==
    IF pat = <<>> THEN s = <<>>
    ELSE IF Head(pat) = "%"
         THEN Like(s, Tail(pat)) \/ (s # <<>> /\ Like(Tail(s), pat))
    ELSE IF Head(pat) = "_"
         THEN s # <<>> /\ Like(Tail(s), Tail(pat))
    ELSE s # <<>> /\ Head(s) = Head(pat) /\ Like(Tail(s), Tail(pat))

ILike(s, pat) == Like(LowerStr(s), LowerStr(pat))

\* searchTerm := "%" + filters.Search + "%"
SearchTerm(search) == <<"%">> \o search \o <<"%">>

\* TaskFilters; a nil pointer is "nil" (Completed) or 0 (DueBefore, DueAfter)
NoFilters ==
    [Completed |-> "nil", Priority |-> "", Search |-> <<>>, DueBefore |-> 0,
     DueAfter |-> 0, CategoryIDs |-> {}, Limit |-> 0, Offset |-> 0]

\* the conditions GetByUserID appends to its WHERE clause
ListConditions_NoCompleted(filters) ==
    LET c1 == <<>>
        c2 == IF filters.Priority # "" THEN Append(c1, "priority") ELSE c1
        c3 == IF filters.Search # <<>> THEN Append(c2, "search") ELSE c2
    IN  c3

ListConditions(filters) ==
    LET c1 == IF filters.Completed # "nil" THEN <<"completed">> ELSE <<>>
        c2 == IF filters.Priority # "" THEN Append(c1, "priority") ELSE c1
        c3 == IF filters.Search # <<>> THEN Append(c2, "search") ELSE c2
    IN  c3

\* the conditions Count appends to its WHERE clause
CountConditions_NoPriority(filters) ==
    LET c1 == IF filters.Completed # "nil" THEN <<"completed">> ELSE <<>>
        c3 == IF filters.Search # <<>> THEN Append(c1, "search") ELSE c1
    IN  c3

CountConditions(filters) ==
    LET c1 == IF filters.Completed # "nil" THEN <<"completed">> ELSE <<>>
        c2 == IF filters.Priority # "" THEN Append(c1, "priority") ELSE c1
        c3 == IF filters.Search # <<>> THEN Append(c2, "search") ELSE c2
    IN  c3

\* one condition of the WHERE clause, evaluated on a row with its argument
Condition(c, t, filters) ==
    CASE c = "completed" -> t.completed = (filters.Completed = "true")
      [] c = "priority" -> t.priority = filters.Priority
      [] c = "search" -> \/ ILike(t.title, SearchTerm(filters.Search))
                         \/ ILike(t.description, SearchTerm(filters.Search))

\* WHERE user_id = $1 AND <conditions joined by AND>
Where(ts, userID, conds, filters) ==
    {t \in ts : /\ t.user_id = userID
                /\ \A i \in 1..Len(conds) : Condition(conds[i], t, filters)}

RECURSIVE OrderByCreatedAtDesc(_)
OrderByCreatedAtDesc(rows) ==
    IF rows = {} THEN <<>>
    ELSE LET t == CHOOSE x \in rows : \A y \in rows : y.created_at <= x.created_at
         IN  <<t>> \o OrderByCreatedAtDesc(rows \ {t})

\* LIMIT and OFFSET are added to the query only when they are positive
LimitOffset(rows, limit, offset) ==
    LET skipped == IF offset > 0 THEN SubSeq(rows, offset + 1, Len(rows)) ELSE rows
    IN  IF limit > 0 /\ limit < Len(skipped) THEN SubSeq(skipped, 1, limit)
        ELSE skipped

\* taskRepository.GetByUserID with filters: the tasks, newest first, each with
\* its categories
GetByUserIDFilters(ts, cats, links, userID, filters) ==
    LET rows == Where(ts, userID, ListConditions(filters), filters)
        page == LimitOffset(OrderByCreatedAtDesc(rows), filters.Limit, filters.Offset)
    IN  [i \in 1..Len(page) |->
            [task |-> page[i], categories |-> TaskCategories(cats, links, page[i].id)]]

\* taskRepository.Count
Count(ts, userID, filters) ==
    Cardinality(Where(ts, userID, CountConditions(filters), filters))

\* ---------------------------------- direct calls of the task repository
\* taskRepository.Create(task): one INSERT on the pool handle; the caller
\* chooses the id, the database stamps created_at and updated_at
TaskRepoCreate(task) ==
    /\ Cardinality(tasks) < MaxRows
    /\ now < MaxStamps
    /\ LET ok == ~ViolatesUserFK(users, task.user_id)
           row == [id |-> now + 1, user_id |-> task.user_id,
                   completed |-> task.completed, title |-> task.title,
                   description |-> task.description, priority |-> task.priority,
                   due_date |-> task.due_date,
                   created_at |-> now + 1, updated_at |-> now + 1]
       IN  /\ tasks' = IF ok THEN tasks \cup {row} ELSE tasks
           /\ now' = IF ok THEN now + 1 ELSE now
           /\ op' = [name |-> "Create", id |-> now + 1, user_id |-> task.user_id,
                     err |-> IF ok THEN "" ELSE "foreign key violation"]
    /\ UNCHANGED <<users, categories, task_categories, callVars, faults, tokens>>
    /\ UNCHANGED <<hreq, memVars>>

\* taskRepo.GetByUserID(userID, filters) and taskRepo.Count(userID, filters)
\* on one state of the store
ListAndCount(userID, filters) ==
    /\ op' = [name |-> "list", userID |-> userID, filters |-> filters,
              tasks |-> GetByUserIDFilters(tasks, categories, task_categories,
                                           userID, filters),
              count |-> Count(tasks, userID, filters)]
    /\ UNCHANGED <<users, tasks, categories, task_categories, callVars, faults,
                   now, tokens>>
    /\ UNCHANGED <<hreq, memVars>>

\* the Task values and the TaskFilters values of the filter specification
FilterTasks ==
    [user_id : {"u1", "u2"}, completed : BOOLEAN, title : {<<"a">>, <<"_">>},
     description : {<<>>}, priority : {"low", "high"}, due_date : {0}]

FilterQueries ==
    [Completed : {"nil", "true", "false"}, Priority : {"", "low", "high"},
     Search : {<<>>, <<"a">>}, DueBefore : {0}, DueAfter : {0},
     CategoryIDs : {{}}, Limit : {0, 1}, Offset : {0, 1}]

NextFilter ==
    \/ \E task \in FilterTasks : TaskRepoCreate(task)
    \/ \E userID \in {"u1", "u2"}, filters \in FilterQueries :
           ListAndCount(userID, filters)

SpecFilter == Init /\ [][NextFilter]_vars

\* the tasks of a listing, as a set of rows
Listed == {op.tasks[i].task : i \in 1..Len(op.tasks)}
Unpaged == op.filters.Limit = 0 /\ op.filters.Offset = 0

PageLength(n, limit, offset) ==
    LET rest == IF offset > 0 THEN (IF n > offset THEN n - offset ELSE 0) ELSE n
    IN  IF limit > 0 /\ limit < rest THEN limit ELSE rest

C14_ListIsTheFilteredTasks ==
    (op.name = "list" /\ Unpaged) =>
        Listed = {t \in tasks :
                    /\ t.user_id = op.userID
                    /\ op.filters.Completed = "true" => t.completed
                    /\ op.filters.Completed = "false" => ~t.completed
                    /\ op.filters.Priority # "" => t.priority = op.filters.Priority
                    /\ op.filters.Search # <<>> =>
                           \/ ILike(t.title, SearchTerm(op.filters.Search))
                           \/ ILike(t.description, SearchTerm(op.filters.Search))}

\* a listing with only the completed filter set returned one of the user's two
\* tasks, which differ in priority and title as well
C14_Witness ==
    /\ op.name = "list" /\ Unpaged
    /\ op.filters.Completed = "true" /\ op.filters.Priority = ""
    /\ op.filters.Search = <<>>
    /\ Len(op.tasks) = 1
    /\ \E t1, t2 \in tasks :
           /\ t1.user_id = op.userID /\ t2.user_id = op.userID
           /\ t1.completed /\ ~t2.completed
           /\ t1.priority # t2.priority /\ t1.title # t2.title

\* ------------------------------------------------------------- the search
\* the Task values and the TaskFilters values of the search specification
SearchTasks ==
    [user_id : {"u1"}, completed : BOOLEAN, title : Strings,
     description : {<<>>, <<"A">>}, priority : {"low"},
     due_date : {0}]

SearchQueries ==
    [Completed : {"nil", "true"}, Priority : {""}, Search : Strings,
     DueBefore : {0}, DueAfter : {0}, CategoryIDs : {{}}, Limit : {0},
     Offset : {0}]

NextSearch ==
    \/ \E task \in SearchTasks : TaskRepoCreate(task)
    \/ \E filters \in SearchQueries : ListAndCount("u1", filters)

SpecSearch == Init /\ [][NextSearch]_vars

\* s contains term as a substring, ignoring letter case
ContainsFold(s, term) ==
    \E i \in 1..(Len(s) - Len(term) + 1) :
        \A j \in 1..Len(term) : Lower(s[i + j - 1]) = Lower(term[j])

\* C15: with a non-empty search term GetByUserID and Count match a task of
\* the user if and only if its title or its description contains the term as
\* a substring ignoring letter case, also when the completed filter is set.
C15_SearchIsSubstringMatch ==
    (op.name = "list" /\ Unpaged /\ op.filters.Search # <<>>) =>
        LET matching ==
                {t \in tasks :
                    /\ t.user_id = op.userID
                    /\ op.filters.Completed = "true" => t.completed
                    /\ op.filters.Completed = "false" => ~t.completed
                    /\ op.filters.Priority # "" => t.priority = op.filters.Priority
                    /\ \/ ContainsFold(t.title, op.filters.Search)
                       \/ ContainsFold(t.description, op.filters.Search)}
        IN  /\ Listed = matching
            /\ op.count = Cardinality(matching)

\* ------------------------------------- due-date and category-id filters
\* categoryRepository.Create(category): one INSERT on the pool handle, the
\* error of the driver is returned as it is
CategoryRepoCreate(name, userID) ==
    /\ LET duplicate == ViolatesUniqueNameUser(categories, name, userID)
           err == IF ViolatesUserFK(users, userID) THEN "foreign key violation"
                  ELSE IF duplicate THEN "unique violation"
                  ELSE ""
       IN  /\ categories' =
                 IF err = ""
                 THEN categories \cup {NewCategoryRow(<<0, name, userID>>, name, userID)}
                 ELSE categories
           /\ op' = [name |-> "CategoryCreate", category |-> name, userID |-> userID,
                     duplicate |-> duplicate, err |-> err]
    /\ UNCHANGED <<users, tasks, task_categories, callVars, faults, now, tokens>>
    /\ UNCHANGED <<hreq, memVars>>

\* INSERT INTO task_categories (task_id, category_id) ... ON CONFLICT DO
\* NOTHING, committed, for a task and a category that exist
LinkCommitted(taskID, categoryID) ==
    /\ TaskFound(tasks, taskID)
    /\ \E c \in categories : c.id = categoryID
    /\ task_categories' = InsertLink(task_categories, taskID, categoryID)
    /\ op' = [name |-> "link", err |-> ""]
    /\ UNCHANGED <<users, tasks, categories, callVars, faults, now, tokens>>
    /\ UNCHANGED <<hreq, memVars>>

\* the Task values and the TaskFilters values of the due-date specification;
\* due dates and bounds are instants 1..3, 0 is no due date / no bound
DueTasks ==
    [user_id : {"u1"}, completed : {FALSE}, title : {<<"a">>},
     description : {<<>>}, priority : {"low"}, due_date : {0, 1, 3}]

DueQueries ==
    [Completed : {"nil"}, Priority : {""}, Search : {<<>>}, DueBefore : {0, 2},
     DueAfter : {0, 2}, CategoryIDs : {{}, {<<0, "A", "u1">>}}, Limit : {0},
     Offset : {0}]

NextDue ==
    \/ \E task \in DueTasks : TaskRepoCreate(task)
    \/ CategoryRepoCreate("A", "u1")
    \/ \E taskID \in 1..MaxRows : LinkCommitted(taskID, <<0, "A", "u1">>)
    \/ \E filters \in DueQueries : ListAndCount("u1", filters)

SpecDue == Init /\ [][NextDue]_vars

\* the task is within the due-date bounds and linked to one of the category
\* ids of the filters, for each of the three that is set
WithinBounds(t, filters) ==
    /\ filters.DueBefore # 0 => (t.due_date # 0 /\ t.due_date < filters.DueBefore)
    /\ filters.DueAfter # 0 => (t.due_date # 0 /\ t.due_date > filters.DueAfter)
    /\ filters.CategoryIDs # {} =>
           \E l \in task_categories :
               l.task_id = t.id /\ l.category_id \in filters.CategoryIDs

\* C16: when DueBefore, DueAfter or CategoryIDs is set, GetByUserID and Count
\* return only tasks within the due-date bounds and linked to one of the given
\* category ids.
C16_DueAndCategoryFiltersApplied ==
    op.name = "list" =>
        /\ \A t \in Listed : WithinBounds(t, op.filters)
        /\ op.count = Cardinality({t \in tasks : /\ t.user_id = op.userID
                                                  /\ WithinBounds(t, op.filters)})

\* ------------------------------------------------------------ JWT service
TokenTTL == 24     \* time.Now().Add(24 * time.Hour), in hours
MaxClock == 26     \* the clock of the token specification stops here
MaxTokens == 1     \* tokens handed out in the token specification

Secret == "secret"

\* the lifetimes a caller may want a token to have, in hours
AskedTTLs == {1, TokenTTL}

\* JWTService.GenerateToken(user): the signed claims
GenerateToken(userID, role, at) ==
    [user_id |-> userID, role |-> role, iat |-> at, exp |-> at + TokenTTL,
     sig |-> Secret]

\* JWTService.ValidateToken: the signature is verified with the secret, then
\* the token is valid while the clock is before exp
ValidateToken_NoSignatureCheck(token, at) ==
    IF ~(at < token.exp) THEN "token is expired"
    ELSE ""

ValidateToken(token, at) ==
    IF token.sig # Secret THEN "signature is invalid"
    ELSE IF ~(at < token.exp) THEN "token is expired"
    ELSE ""

\* the claims ValidateToken returns, when it returns no error
NoClaims == [user_id |-> "", role |-> ""]
ValidatedClaims(token, at) ==
    IF ValidateToken(token, at) = ""
    THEN [user_id |-> token.user_id, role |-> token.role]
    ELSE NoClaims

\* a caller that wants a token living for asked hours gets one from
\* GenerateToken, which has no parameter for the lifetime
IssueToken(userID, asked) ==
    /\ Cardinality(tokens) < MaxTokens
    /\ \E u \in users : u.id = userID
    /\ LET token == GenerateToken(userID, "user", now)
       IN  /\ tokens' = tokens \cup {[token |-> token, asked |-> asked]}
           /\ op' = [name |-> "GenerateToken", token |-> token, asked |-> asked]
    /\ UNCHANGED <<users, tasks, categories, task_categories, callVars, faults, now>>
    /\ UNCHANGED <<hreq, memVars>>

\* the token strings of the token specification, each with the lifetime asked
\* for when it was issued
TokenEntries ==
    [token : [user_id : {"u1"}, role : {"user"}, iat : 0..MaxClock,
              exp : 0..(MaxClock + TokenTTL), sig : {Secret}],
     asked : AskedTTLs]

\* a request presents a token it was given
PresentToken(t) ==
    /\ t \in tokens
    /\ op' = [name |-> "ValidateToken", token |-> t.token, asked |-> t.asked,
              at |-> now, err |-> ValidateToken(t.token, now),
              claims |-> ValidatedClaims(t.token, now)]
    /\ UNCHANGED <<users, tasks, categories, task_categories, callVars, faults,
                   now, tokens>>
    /\ UNCHANGED <<hreq, memVars>>

\* an hour passes
Tick ==
    /\ now < MaxClock
    /\ now' = now + 1
    /\ UNCHANGED <<users, tasks, categories, task_categories, callVars, faults,
                   op, tokens>>
    /\ UNCHANGED <<hreq, memVars>>

NextToken ==
    \/ \E userID \in {"u1"}, asked \in AskedTTLs : IssueToken(userID, asked)
    \/ \E t \in TokenEntries : PresentToken(t)
    \/ Tick

SpecToken == Init /\ [][NextToken]_vars

\* C20: a token issued with a time-to-live ttl is accepted at every instant
\* before issue time + ttl and rejected as expired at every instant after it.
C20_TokenLivesForItsTTL ==
    op.name = "ValidateToken" =>
        /\ op.at < op.token.iat + op.asked => op.err = ""
        /\ op.at > op.token.iat + op.asked => op.err = "token is expired"

\* ------------------------------------ the repositories, called directly
Emails == {"a@x", "b@x"}

\* an id string that is not a UUID; the id columns have type UUID
BadID == -1
IsUUID(id) == id # BadID
TaskIds == (1..MaxStamps) \cup {BadID}

\* users: email VARCHAR(255) UNIQUE
ViolatesUniqueEmail_Never(us, email) == FALSE

ViolatesUniqueEmail(us, email) == \E u \in us : u.email = email

\* userRepository.Create: the error it returns for the driver's error
UserCreateError(driverErr) ==
    IF driverErr = "" THEN ""
    ELSE IF driverErr = "unique violation" THEN "user with email already exists"
    ELSE "failed to create user"

\* strings.Contains(err.Error(), "already exists")
IsAlreadyExists(err) == err = "user with email already exists"

\* Handler.Register: validation, userRepo.Create with a new id, the answer
Register(email) ==
    /\ \/ /\ email = ""
          /\ op' = [name |-> "Register", email |-> email, status |-> 400, err |-> ""]
          /\ UNCHANGED <<users, faults>>
       \/ /\ email # ""
          /\ LET driverErr == IF ViolatesUniqueEmail(users, email)
                              THEN "unique violation" ELSE ""
                 err == UserCreateError(driverErr)
                 id == CHOOSE i \in UserIds : ~UserExists(users, i)
             IN  /\ users' = IF err = ""
                             THEN users \cup {[id |-> id, is_active |-> TRUE,
                                               email |-> email]}
                             ELSE users
                 /\ op' = [name |-> "Register", email |-> email, err |-> err,
                           status |-> IF err = "" THEN 201
                                      ELSE IF IsAlreadyExists(err) THEN 409
                                      ELSE 500]
          /\ UNCHANGED faults
       \/ /\ email # ""
          /\ Fault
          /\ op' = [name |-> "Register", email |-> email, status |-> 500,
                    err |-> UserCreateError("driver error")]
          /\ UNCHANGED users
    /\ UNCHANGED <<tasks, categories, task_categories, callVars, now, tokens>>
    /\ UNCHANGED <<hreq, memVars>>

\* taskRepository.GetByID(id)
TaskRepoGetByID(id) ==
    /\ LET err == IF ~IsUUID(id) THEN "failed to get task: invalid input syntax for type uuid"
                  ELSE IF ~TaskFound(tasks, id) THEN "task not found"
                  ELSE ""
       IN  op' = [name |-> "GetByID", id |-> id, err |-> err,
                  task |-> IF err = ""
                           THEN GetByID(tasks, categories, task_categories, id)
                           ELSE NoTask]
    /\ UNCHANGED <<users, tasks, categories, task_categories, callVars, faults,
                   now, tokens>>
    /\ UNCHANGED <<hreq, memVars>>

\* taskRepository.Update(task): UPDATE ... SET ..., updated_at =
\* CURRENT_TIMESTAMP WHERE id = $1 RETURNING updated_at
TaskRepoUpdate(id, title, completed) ==
    /\ now < MaxStamps
    /\ LET err == IF ~IsUUID(id) THEN "failed to update task: invalid input syntax for type uuid"
                  ELSE IF ~TaskFound(tasks, id) THEN "task not found"
                  ELSE ""
       IN  /\ tasks' = IF err = ""
                       THEN {IF t.id = id
                             THEN [t EXCEPT !.title = title, !.completed = completed,
                                            !.updated_at = now + 1]
                             ELSE t : t \in tasks}
                       ELSE tasks
           /\ now' = IF err = "" THEN now + 1 ELSE now
           /\ op' = [name |-> "Update", id |-> id, err |-> err]
    /\ UNCHANGED <<users, categories, task_categories, callVars, faults, tokens>>
    /\ UNCHANGED <<hreq, memVars>>

\* taskRepository.Delete(id): DELETE FROM tasks WHERE id = $1; the links of
\* the task go with it (ON DELETE CASCADE)
TaskRepoDelete(id) ==
    /\ LET err == IF ~IsUUID(id) THEN "failed to delete task: invalid input syntax for type uuid"
                  ELSE IF ~TaskFound(tasks, id) THEN "task not found"
                  ELSE ""
       IN  /\ tasks' = IF err = "" THEN {t \in tasks : t.id # id} ELSE tasks
           /\ task_categories' =
                 IF err = "" THEN {l \in task_categories : l.task_id # id}
                 ELSE task_categories
           /\ op' = [name |-> "Delete", id |-> id, err |-> err]
    /\ UNCHANGED <<users, categories, callVars, faults, now, tokens>>
    /\ UNCHANGED <<hreq, memVars>>

RepoTasks ==
    [user_id : UserIds, completed : {FALSE}, title : {<<"a">>},
     description : {<<>>}, priority : {"low"}, due_date : {0}]

InitRepo ==
    /\ users = {}
    /\ tasks = {}
    /\ categories = {}
    /\ task_categories = {}
    /\ frame = [p \in Procs |-> NoFrame]
    /\ tx = [p \in Procs |-> "none"]
    /\ rbErr = [p \in Procs |-> FALSE]
    /\ ret = [p \in Procs |-> [status |-> "none", err |-> "", task |-> NoTask]]
    /\ submitted = [p \in Procs |-> [userID |-> "", names |-> {}]]
    /\ faults = 0
    /\ op = NoOp
    /\ now = 0
    /\ tokens = {}
    /\ hreq = [p \in Procs |-> NoHReq]
    /\ memTasks = <<>>
    /\ handlers = <<>>
    /\ mreq = [p \in Procs |-> NoMReq]

NextRepo ==
    \/ \E email \in Emails \cup {""} : Register(email)
    \/ \E userID \in UserIds : CategoryRepoCreate("A", userID)
    \/ \E task \in RepoTasks : TaskRepoCreate(task)
    \/ \E id \in TaskIds : TaskRepoGetByID(id)
    \/ \E id \in TaskIds, completed \in BOOLEAN :
           TaskRepoUpdate(id, <<"a">>, completed)
    \/ \E id \in TaskIds : TaskRepoDelete(id)

SpecRepo == InitRepo /\ [][NextRepo]_vars

\* the duplicate-key error of the repository layer, as userRepository.Create
\* words it
DuplicateKeyErrors == {"user with email already exists", "category already exists"}

\* C17: categoryRepository.Create of a (name, userID) pair that already
\* exists fails with the repository's duplicate-key error, not with the error
\* of the driver, and the existing row is left as it is.
C17_DuplicateCategoryIsDuplicateKeyError ==
    (op.name = "CategoryCreate" /\ op.duplicate) =>
        /\ op.err \in DuplicateKeyErrors
        /\ Cardinality(GetByNameRows(categories, op.category, op.userID)) = 1

OneUserPerEmail(us) == \A u1, u2 \in us : u1.email = u2.email => u1 = u2

\* C18: registering an email that already exists fails with the "already
\* exists" error, is answered 409 Conflict and adds no row; there is at most
\* one user per email after any sequence of registrations.
C18_DuplicateEmailRejected ==
    [][/\ (op'.name = "Register" /\ op' # op /\ op'.email # "") =>
              ((\E u \in users : u.email = op'.email) =>
                   /\ users' = users
                   /\ op'.status # 201
                   /\ faults' = faults =>      \* the database was reached
                          (IsAlreadyExists(op'.err) /\ op'.status = 409))
       /\ OneUserPerEmail(users')]_vars

\* two users are registered and a registration of one of their emails was
\* answered 409
C18_Witness ==
    /\ op.name = "Register" /\ op.status = 409
    /\ Cardinality(users) = 2
    /\ \E u \in users : u.email = op.email

\* C19: GetByID, Update and Delete of an id that is not in the store return
\* the not-found error and change nothing; a successful Delete(id) leaves no
\* task with that id, so GetByID(id) and Delete(id) then return not-found.
C19_MissingIdIsNotFound ==
    [][(op'.name \in {"GetByID", "Update", "Delete"} /\ op' # op) =>
          /\ ~TaskFound(tasks, op'.id) =>
                 /\ op'.err = "task not found"
                 /\ tasks' = tasks /\ task_categories' = task_categories
          /\ (op'.name = "Delete" /\ op'.err = "") => ~TaskFound(tasks', op'.id)]_vars

\* ---------------------------------------------------------- forged tokens
\* token strings made without the secret: any claims, for a real user, not
\* yet expired or expired, with a signature that does not verify
ForgedEntries ==
    [token : [user_id : {"u1"}, role : {"user", "admin"}, iat : {0},
              exp : {1, MaxClock + TokenTTL}, sig : {"forged"}],
     asked : {TokenTTL}]

\* a client makes up a token string
ForgeToken(t) ==
    /\ Cardinality(tokens) < MaxTokens
    /\ tokens' = tokens \cup {t}
    /\ op' = [name |-> "forge", token |-> t.token]
    /\ UNCHANGED <<users, tasks, categories, task_categories, callVars, faults, now>>
    /\ UNCHANGED <<hreq, memVars>>

NextForge ==
    \/ \E userID \in {"u1"}, asked \in AskedTTLs : IssueToken(userID, asked)
    \/ \E t \in ForgedEntries : ForgeToken(t)
    \/ \E t \in TokenEntries \cup ForgedEntries : PresentToken(t)
    \/ Tick

SpecForge == Init /\ [][NextForge]_vars

\* C21: ValidateToken rejects every token whose signature does not verify
\* under the secret, whatever its claims say, and returns none of its claims;
\* a token signed under the secret and not expired validates to the subject id
\* and the role it was issued with.
C21_SignatureDecides ==
    op.name = "ValidateToken" =>
        /\ op.token.sig # Secret =>
               (op.err = "signature is invalid" /\ op.claims = NoClaims)
        /\ (op.token.sig = Secret /\ op.at < op.token.exp) =>
               /\ op.err = ""
               /\ op.claims = [user_id |-> op.token.user_id, role |-> op.token.role]
               /\ op.token = GenerateToken(op.claims.user_id, op.claims.role, op.token.iat)

\* a forged token with unexpired admin claims for a real user was presented
\* and rejected
C21_Witness ==
    /\ op.name = "ValidateToken"
    /\ op.token.sig # Secret /\ op.token.role = "admin"
    /\ op.at < op.token.exp
    /\ UserExists(users, op.token.user_id)
    /\ op.err = "signature is invalid"

\* -------------------------------------------------- the context deadline
\* the database stalls while a call waits for a statement that carries the
\* caller's context (taskRepo.Create, GetByName, categoryRepo.Create,
\* tx.ExecContext): the deadline expires and the statement returns the error
\* of the context; a statement issued on the expired context fails at once,
\* so the unit of work ends with that error
TimesOut(p) ==
    /\ pc(p) \in {"createTask", "getByName", "createCategory", "link"}
    /\ Step(p, FnEnds(frame[p], "err", "context deadline exceeded"))
    /\ UNCHANGED <<users, tasks, categories, task_categories, tx, rbErr, ret,
                   submitted, faults>>
    /\ UNCHANGED repoVars

\* the database stalls while WithTransaction waits in tx.Commit() or
\* tx.Rollback(): the transaction was begun by db.Begin(), without the
\* caller's context, so no deadline ends the wait
Blocks(p) ==
    /\ pc(p) = "txEnd"
    /\ frame[p].fn.status \in {"ok", "err"}
    /\ Step(p, [frame[p] EXCEPT !.pc = "blocked"])
    /\ UNCHANGED <<users, tasks, categories, task_categories, tx, rbErr, ret,
                   submitted, faults>>
    /\ UNCHANGED repoVars

NextDeadline ==
    \E p \in Procs :
        \/ /\ \A q \in Procs : ~InProgress(q)
           /\ \E userID \in UserIds, names \in NameLists : Call(p, userID, names)
        \/ CreateTask(p)
        \/ GetByName(p)
        \/ CreateCategory(p)
        \/ LinkCategory(p)
        \/ TxEnd(p)
        \/ Reread(p)
        \/ TimesOut(p)
        \/ Blocks(p)

SpecDeadline == Init /\ [][NextDeadline]_vars

\* C22: when the context deadline expires during CreateTaskWithCategories the
\* call returns a DatabaseTimeout error and its transaction is rolled back; the
\* call does not stay waiting with the transaction open.
C22_DeadlineReleasesTransaction ==
    [][\A p \in Procs :
          (pc(p) = "txEnd" /\ frame[p].fn.err = "context deadline exceeded"
             /\ frame'[p] # frame[p]) =>
              /\ frame'[p].pc = "done"
              /\ ret'[p].status = "err" /\ ret'[p].err = "DatabaseTimeout"
              /\ tx'[p] = "rolledback"]_vars

\* ------------------------------------------------------ store invariants
\* C23: every task_categories row links a task and a category that are owned
\* by the same user.
C23_LinksStayWithinOneUser ==
    \A l \in task_categories :
        \E t \in tasks, c \in categories :
            /\ t.id = l.task_id /\ c.id = l.category_id
            /\ t.user_id = c.user_id

\* two users each have a task linked to their own category of the same name
C23_Witness ==
    \E l1, l2 \in task_categories, c1, c2 \in categories :
        /\ c1.id = l1.category_id /\ c2.id = l2.category_id
        /\ c1.name = c2.name /\ c1.user_id # c2.user_id
        /\ \E t1, t2 \in tasks :
               /\ t1.id = l1.task_id /\ t2.id = l2.task_id
               /\ t1.user_id = c1.user_id /\ t2.user_id = c2.user_id

\* ---------------------------------------------------- ON DELETE CASCADE
\* what is left of tasks / categories when a user is deleted
\* (user_id ... REFERENCES users(id) ON DELETE CASCADE)
CascadeUser_Kept(rows, userID) == rows

CascadeUser(rows, userID) == {r \in rows : r.user_id # userID}

\* what is left of task_categories when tasks and categories are deleted
\* (task_id / category_id ... ON DELETE CASCADE)
CascadeLinks(links, ts, cats) ==
    {l \in links : /\ \E t \in ts : t.id = l.task_id
                   /\ \E c \in cats : c.id = l.category_id}

\* DELETE FROM users WHERE id = $1
DeleteUser(userID) ==
    /\ UserExists(users, userID)
    /\ users' = {u \in users : u.id # userID}
    /\ tasks' = CascadeUser(tasks, userID)
    /\ categories' = CascadeUser(categories, userID)
    /\ task_categories' = CascadeLinks(task_categories, tasks', categories')
    /\ op' = [name |-> "DeleteUser", userID |-> userID, err |-> "",
              \* history: how many tasks, categories and links went with the user
              cascaded |-> <<Cardinality(tasks \ tasks'),
                             Cardinality(categories \ categories'),
                             Cardinality(task_categories \ task_categories')>>]
    /\ UNCHANGED <<callVars, faults, now, tokens>>
    /\ UNCHANGED <<hreq, memVars>>

CategoryIds == {<<0, "A", userID>> : userID \in UserIds}

NextCascade ==
    \/ \E email \in Emails \cup {""} : Register(email)
    \/ \E userID \in UserIds : CategoryRepoCreate("A", userID)
    \/ \E task \in RepoTasks : TaskRepoCreate(task)
    \/ \E taskID \in 1..MaxStamps, categoryID \in CategoryIds :
           LinkCommitted(taskID, categoryID)
    \/ \E id \in 1..MaxStamps : TaskRepoDelete(id)
    \/ \E userID \in UserIds : DeleteUser(userID)

SpecCascade == InitRepo /\ [][NextCascade]_vars

\* C24: every task's user id references an existing user; taskRepository.
\* Create with a user id that is not in users returns an error and inserts no
\* task.
C24_TaskOwnerExists ==
    [][/\ (op'.name = "Create" /\ op' # op /\ ~UserExists(users, op'.user_id)) =>
              (op'.err # "" /\ tasks' = tasks)
       /\ \A t \in tasks' : UserExists(users', t.user_id)]_vars

\* a Create for a missing user was refused while another user has a task
C24_Witness ==
    /\ op.name = "Create" /\ op.err = "foreign key violation"
    /\ ~UserExists(users, op.user_id)
    /\ tasks # {}

\* C25: deleting a user removes in the same step the user's tasks, categories
\* and links, so both GetByUserID return nothing for that user; deleting a
\* task removes its links; no link references a deleted task or category.
C25_DeleteCascades ==
    [][/\ (op'.name = "DeleteUser" /\ op' # op) =>
              /\ GetByUserIDFilters(tasks', categories', task_categories',
                                    op'.userID, NoFilters) = <<>>
              /\ Count(tasks', op'.userID, NoFilters) = 0
              /\ CategoriesByUserID(categories', op'.userID) = {}
       /\ (op'.name = "Delete" /\ op' # op /\ op'.err = "") =>
              LinksOf(task_categories', op'.id) = {}
       /\ \A l \in task_categories' :
              /\ TaskFound(tasks', l.task_id)
              /\ \E c \in categories' : c.id = l.category_id]_vars

\* a user who had a task linked to a category was deleted while another
\* user's task stays
C25_Witness ==
    /\ op.name = "DeleteUser"
    /\ op.cascaded[1] > 0 /\ op.cascaded[2] > 0 /\ op.cascaded[3] > 0
    /\ tasks # {}

-----------------------------------------------------------------------------
\* The in-memory variant of the task API: MemoryStorage is an empty struct
\* whose methods read and write the package-level slice tasks, and nothing
\* in the package locks it.  Each handler runs on its own goroutine.

MaxHandlers == 2

HandlerIds == 1..MaxHandlers
MemIds == 1..MaxRows

\* UpdateTaskRequest: a pointer field is <<>> when the payload leaves the
\* field out (nil) and <<v>> when it carries the value v
MemUpdates ==
    { [Title |-> << <<"a">> >>, Description |-> <<>>, Completed |-> <<>>],
      [Title |-> <<>>, Description |-> << <<"A">> >>, Completed |-> <<>>],
      [Title |-> <<>>, Description |-> <<>>, Completed |-> <<"true">>] }

\* the index of the task with this id in the slice, 0 when the loop ends
\* without a match
MemIndex(id) ==
    IF \E i \in 1..Len(memTasks) : memTasks[i].id = id
    THEN CHOOSE i \in 1..Len(memTasks) :
             /\ memTasks[i].id = id
             /\ \A j \in 1..(i - 1) : memTasks[j].id # id
    ELSE 0

\* MemoryStorage.GetAll and GetByCompleted: both read the package's slice
MemGetAll == memTasks

MemGetByCompleted(completed) ==
    SelectSeq(memTasks, LAMBDA t : t.completed = completed)

\* the fields Update assigns before it stamps the task
ApplyUpdates(task, updates) ==
    [task EXCEPT
        !.title = IF updates.Title # <<>> THEN updates.Title[1] ELSE @,
        !.description =
            IF updates.Description # <<>> THEN updates.Description[1] ELSE @,
        !.completed =
            IF updates.Completed # <<>> THEN updates.Completed[1] ELSE @]

\* NewTaskHandler(&MemoryStorage{}): a new handler over a new storage value
NewTaskHandler ==
    /\ Len(handlers) < MaxHandlers
    /\ handlers' = Append(handlers, {})
    /\ op' = [name |-> "NewTaskHandler", handler |-> Len(handlers) + 1]
    /\ UNCHANGED <<users, tasks, categories, task_categories, callVars,
                   faults, now, tokens, hreq, memTasks, mreq>>

\* TaskHandler.CreateTask of handler h: one reading of the clock stamps both
\* times, then storage.Create appends to the slice
MemCreateTask(h, title) ==
    /\ h <= Len(handlers)
    /\ Len(memTasks) < MaxRows
    /\ now < MaxStamps
    /\ LET id == Len(memTasks) + 1
           task == [id |-> id, title |-> title, description |-> <<>>,
                    completed |-> "false",
                    created_at |-> now + 1, updated_at |-> now + 1]
       IN  /\ memTasks' = Append(memTasks, task)
           /\ handlers' = [handlers EXCEPT ![h] = @ \cup {id}]
           /\ op' = [name |-> "CreateTask", handler |-> h, id |-> id]
    /\ now' = now + 1
    /\ UNCHANGED <<users, tasks, categories, task_categories, callVars,
                   faults, tokens, hreq, mreq>>

\* TaskHandler.GetTasks of handler h, with or without ?completed=
MemGetTasks(h, completed) ==
    /\ h <= Len(handlers)
    /\ LET list == IF completed = "nil" THEN MemGetAll
                   ELSE MemGetByCompleted(completed)
       IN  op' = [name |-> "GetTasks", handler |-> h,
                  completed |-> completed, count |-> Len(list)]
    /\ UNCHANGED <<users, tasks, categories, task_categories, callVars,
                   faults, now, tokens, hreq, memVars>>

\* MemoryStorage.Update up to the call of time.Now(): the loop finds the
\* task, the present fields are assigned, and the clock is read
MemUpdateFind(g, id, updates) ==
    /\ mreq[g].pc = "idle"
    /\ LET i == MemIndex(id) IN
       IF i = 0
       THEN /\ op' = [name |-> "MemUpdate", g |-> g, id |-> id,
                      err |-> "task not found"]
            /\ UNCHANGED <<memTasks, mreq, now>>
       ELSE /\ now < MaxStamps
            /\ memTasks' = [memTasks EXCEPT
                               ![i] = ApplyUpdates(@, updates)]
            /\ mreq' = [mreq EXCEPT
                           ![g] = [pc |-> "store", i |-> i, id |-> id,
                                   stamp |-> now + 1]]
            /\ now' = now + 1
            /\ op' = [name |-> "MemUpdateFind", g |-> g, id |-> id]
    /\ UNCHANGED <<users, tasks, categories, task_categories, callVars,
                   faults, tokens, hreq, handlers>>

\* MemoryStorage.Update from the store of UpdatedAt to its return
MemUpdateStore(g) ==
    /\ mreq[g].pc = "store"
    /\ memTasks' = [memTasks EXCEPT
                       ![mreq[g].i].updated_at = mreq[g].stamp]
    /\ mreq' = [mreq EXCEPT ![g] = NoMReq]
    /\ op' = [name |-> "MemUpdate", g |-> g, id |-> mreq[g].id, err |-> ""]
    /\ UNCHANGED <<users, tasks, categories, task_categories, callVars,
                   faults, now, tokens, hreq, handlers>>

NextMemory ==
    \/ NewTaskHandler
    \/ \E h \in HandlerIds, title \in {<<"a">>, <<"A">>} :
           MemCreateTask(h, title)
    \/ \E h \in HandlerIds, completed \in {"nil", "true"} :
           MemGetTasks(h, completed)
    \/ \E g \in Procs, id \in MemIds, updates \in MemUpdates :
           MemUpdateFind(g, id, updates)
    \/ \E g \in Procs : MemUpdateStore(g)

SpecMemory == Init /\ [][NextMemory]_vars

\* taskRepository.Update of main.go stamps the row it matched with a later
\* time and keeps its id and created_at (each statement is one step here)
RepositoryUpdateAdvances ==
    [][ \A id \in TaskIds :
          (/\ op'.name = "Update"
           /\ op'.id = id
           /\ op'.err = ""
           /\ tasks' # tasks)
          => \E old \in tasks, new \in tasks' :
                 /\ old.id = id
                 /\ new.id = id
                 /\ new.updated_at > old.updated_at
                 /\ new.created_at = old.created_at
                 /\ tasks' \ {new} = tasks \ {old} ]_vars

\* C26: every update that succeeds leaves the task with an updated_at
\* strictly greater than the one it had just before, and with the same id
\* and created_at; stated here for MemoryStorage.Update, at its store
C26_UpdatedAtStrictlyIncreases ==
    [][ \A g \in Procs :
          (mreq[g].pc = "store" /\ mreq'[g].pc = "idle")
          => LET i == mreq[g].i IN
             /\ memTasks'[i].updated_at > memTasks[i].updated_at
             /\ memTasks'[i].created_at = memTasks[i].created_at
             /\ memTasks'[i].id = memTasks[i].id ]_vars

\* C28: a handler through which no task was created lists no task
C28_NewHandlerStartsEmpty ==
    (/\ op.name = "GetTasks"
     /\ op.completed = "nil"
     /\ handlers[op.handler] = {})
    => op.count = 0

-----------------------------------------------------------------------------
\* The protected task routes of main.go: authMiddleware, then GetTask,
\* UpdateTask or DeleteTask.  Each request runs on its own goroutine; one
\* step is the code up to and including one statement sent to the database.

Routes == {"GetTask", "UpdateTask", "DeleteTask"}

NoToken == [user_id |-> "", role |-> "", iat |-> 0, exp |-> 0, sig |-> ""]
NoRow == [id |-> 0]

\* the token strings a client may send: one issued to each user, one issued
\* a lifetime ago, and one with admin claims signed with another key
BearerTokens ==
    { GenerateToken("u1", "user", 0), GenerateToken("u2", "user", 0),
      GenerateToken("u1", "user", 0 - TokenTTL),
      [GenerateToken("u1", "admin", 0) EXCEPT !.sig = "forged"] }

\* the Authorization header: absent, of another scheme, or "Bearer <token>"
Headers ==
    { [scheme |-> "", token |-> NoToken],
      [scheme |-> "Basic", token |-> GenerateToken("u1", "user", 0)] }
    \cup { [scheme |-> "Bearer", token |-> t] : t \in BearerTokens }

\* UpdateTaskRequest of main.go: a pointer field is <<>> when the payload
\* leaves the field out and <<v>> when it carries v
NoBody == [Title |-> <<>>, Completed |-> <<>>]
UpdateBodies ==
    { NoBody,
      [Title |-> << <<"_">> >>, Completed |-> <<>>],
      [Title |-> <<>>, Completed |-> <<TRUE>>],
      [Title |-> << <<>> >>, Completed |-> <<>>] }

\* the {id} of the routes: the first task's id, or a string that is no UUID
RequestIds == {1, BadID}

HandlerTasks ==
    [user_id : {"u1", "u2"}, completed : {FALSE}, title : {<<"a">>},
     description : {<<>>}, priority : {"low"}, due_date : {0}]

\* the check "task.UserID != userID" of the three handlers
OwnedBy_Anyone(task, userID) == TRUE

OwnedBy(task, userID) == task.user_id = userID

\* the error of taskRepository.GetByID for this id
GetByIDError(ts, id) ==
    IF ~IsUUID(id) THEN "failed to get task: invalid input syntax for type uuid"
    ELSE IF ~TaskFound(ts, id) THEN "task not found"
    ELSE ""

\* strings.Contains(err.Error(), "not found")
IsNotFound(err) == err = "task not found"

TaskRow(ts, id) == CHOOSE t \in ts : t.id = id

\* "Apply updates" of UpdateTask: the present fields go into the task read
ApplyRequest(task, req) ==
    [task EXCEPT
        !.title = IF req.Title # <<>> THEN req.Title[1] ELSE @,
        !.completed = IF req.Completed # <<>> THEN req.Completed[1] ELSE @]

\* the UPDATE of taskRepository.Update: every column is set from the task
\* passed in, updated_at from the database's clock
UpdateRows(ts, task, stamp) ==
    {IF t.id = task.id
     THEN [t EXCEPT !.title = task.title, !.description = task.description,
                    !.completed = task.completed, !.priority = task.priority,
                    !.due_date = task.due_date, !.updated_at = stamp]
     ELSE t : t \in ts}

\* the handler of request p answers and returns
Respond(p, status, task) ==
    /\ hreq' = [hreq EXCEPT ![p] = NoHReq]
    /\ op' = [name |-> hreq[p].route, p |-> p, userID |-> hreq[p].userID,
              taskID |-> hreq[p].taskID, status |-> status, task |-> task]

\* authMiddleware: 401 unless the header carries a token ValidateToken
\* accepts; then the handler of the route runs with the token's user id
AuthMiddleware(p, header, route, taskID, req) ==
    /\ hreq[p].pc = "idle"
    /\ route # "UpdateTask" => req = NoBody
    /\ LET err == IF header.scheme = "" THEN "Authorization header required"
                  ELSE IF header.scheme # "Bearer" THEN "Bearer token required"
                  ELSE IF ValidateToken(header.token, now) # ""
                       THEN "Invalid token"
                  ELSE ""
       IN  /\ hreq' = IF err = ""
                      THEN [hreq EXCEPT
                               ![p] = [pc |-> "getByID", route |-> route,
                                       userID |-> ValidatedClaims(
                                                     header.token, now).user_id,
                                       taskID |-> taskID, req |-> req,
                                       task |-> NoRow]]
                      ELSE hreq
           /\ op' = [name |-> "authMiddleware", p |-> p, header |-> header,
                     status |-> IF err = "" THEN 0 ELSE 401]
    /\ UNCHANGED <<users, tasks, categories, task_categories, callVars,
                   faults, now, tokens, memVars>>

\* GetTask, UpdateTask and DeleteTask up to their first statement and what
\* follows it without another: taskRepo.GetByID, the answer for its error,
\* the ownership check, and for UpdateTask the decoding of the payload
HandlerGetByID(p) ==
    /\ hreq[p].pc = "getByID"
    /\ LET r == hreq[p]
           err == GetByIDError(tasks, r.taskID)
           task == TaskRow(tasks, r.taskID)
       IN  IF err # ""
           THEN Respond(p, IF IsNotFound(err) THEN 404 ELSE 500, NoRow)
           ELSE IF ~OwnedBy(task, r.userID)
           THEN Respond(p, 403, NoRow)
           ELSE IF r.route = "GetTask"
           THEN Respond(p, 200, task)
           ELSE IF r.route = "DeleteTask"
           THEN /\ hreq' = [hreq EXCEPT ![p].pc = "delete", ![p].task = task]
                /\ op' = [name |-> "GetByID", p |-> p]
           ELSE IF r.req.Title = << <<>> >>
           THEN Respond(p, 400, NoRow)
           ELSE /\ hreq' = [hreq EXCEPT ![p].pc = "update",
                                        ![p].task = ApplyRequest(task, r.req)]
                /\ op' = [name |-> "GetByID", p |-> p]
    /\ UNCHANGED <<users, tasks, categories, task_categories, callVars,
                   faults, now, tokens, memVars>>

\* UpdateTask: taskRepo.Update(task) with the task read and changed
HandlerUpdate(p) ==
    /\ hreq[p].pc = "update"
    /\ IF ~TaskFound(tasks, hreq[p].taskID)
       THEN /\ Respond(p, 500, NoRow)
            /\ UNCHANGED <<tasks, now>>
       ELSE /\ now < MaxStamps
            /\ tasks' = UpdateRows(tasks, hreq[p].task, now + 1)
            /\ now' = now + 1
            /\ hreq' = [hreq EXCEPT ![p].pc = "reread"]
            /\ op' = [name |-> "Update", id |-> hreq[p].taskID, err |-> "",
                      p |-> p]
    /\ UNCHANGED <<users, categories, task_categories, callVars, faults,
                   tokens, memVars>>

\* UpdateTask: the second taskRepo.GetByID, whose task is the answer
HandlerReread(p) ==
    /\ hreq[p].pc = "reread"
    /\ IF ~TaskFound(tasks, hreq[p].taskID)
       THEN Respond(p, 500, NoRow)
       ELSE Respond(p, 200, TaskRow(tasks, hreq[p].taskID))
    /\ UNCHANGED <<users, tasks, categories, task_categories, callVars,
                   faults, now, tokens, memVars>>

\* DeleteTask: taskRepo.Delete(taskID); the links of the task go with it
HandlerDelete(p) ==
    /\ hreq[p].pc = "delete"
    /\ IF ~TaskFound(tasks, hreq[p].taskID)
       THEN /\ Respond(p, 500, NoRow)
            /\ UNCHANGED <<tasks, task_categories>>
       ELSE /\ tasks' = {t \in tasks : t.id # hreq[p].taskID}
            /\ task_categories' =
                   {l \in task_categories : l.task_id # hreq[p].taskID}
            /\ Respond(p, 204, NoRow)
    /\ UNCHANGED <<users, categories, callVars, faults, now, tokens, memVars>>

NextHandlers ==
    \/ \E task \in HandlerTasks : TaskRepoCreate(task)
    \/ \E p \in Procs, header \in Headers, route \in Routes,
          taskID \in RequestIds, req \in UpdateBodies :
           AuthMiddleware(p, header, route, taskID, req)
    \/ \E p \in Procs : HandlerGetByID(p)
    \/ \E p \in Procs : HandlerUpdate(p)
    \/ \E p \in Procs : HandlerReread(p)
    \/ \E p \in Procs : HandlerDelete(p)

SpecHandlers == Init /\ [][NextHandlers]_vars

\* C29: a step of a request whose user id differs from the owner of the
\* task it names answers 403 and leaves the tasks as they are, returning
\* none; and a handler is entered only with a header carrying a token that
\* was signed with the secret and has not expired, for that token's user
C29_OnlyTheOwnerActs ==
    [][ \A p \in Procs :
          /\ (/\ hreq[p].pc # "idle"
              /\ hreq'[p] # hreq[p]
              /\ \E t \in tasks : /\ t.id = hreq[p].taskID
                                  /\ t.user_id # hreq[p].userID)
             => /\ tasks' = tasks
                /\ task_categories' = task_categories
                /\ hreq'[p].pc = "idle"
                /\ op'.status = 403
                /\ op'.task = NoRow
          /\ (hreq[p].pc = "idle" /\ hreq'[p].pc # "idle")
             => /\ op'.header.scheme = "Bearer"
                /\ op'.header.token.sig = Secret
                /\ now < op'.header.token.exp
                /\ hreq'[p].userID = op'.header.token.user_id ]_vars

C29_Witness ==
    /\ op.name \in {"UpdateTask", "DeleteTask"}
    /\ op.status = 403
    /\ \E t \in tasks : t.id = op.taskID /\ t.user_id # op.userID

\* C30: the UPDATE of an UpdateTask request sets each field its payload
\* carries to the payload's value and leaves each field the payload does
\* not carry as it was stored
C30_PatchesCompose ==
    [][ \A p \in Procs :
          (/\ hreq[p].pc = "update"
           /\ hreq'[p].pc = "reread")
          => LET old == TaskRow(tasks, hreq[p].taskID)
                 new == TaskRow(tasks', hreq[p].taskID)
                 req == hreq[p].req
             IN  /\ new.title = IF req.Title # <<>> THEN req.Title[1]
                                ELSE old.title
                 /\ new.completed = IF req.Completed # <<>>
                                    THEN req.Completed[1]
                                    ELSE old.completed ]_vars

-----------------------------------------------------------------------------
\* The calls of CreateTaskWithCategories over the bounded pool.  db.Begin()
\* takes a connection of the pool and keeps it until Commit or Rollback;
\* every statement of a repository takes another one for its duration and
\* waits while the pool has none.  NewDatabase sets the limit to 25; the
\* specification runs as many concurrent calls as the pool has connections.

MaxOpenConns == NumCalls

\* connections held by open transactions
InUse == Cardinality({p \in Procs : tx[p] = "open"})

\* the pool hands out a connection without waiting
PoolFree == InUse < MaxOpenConns

\* the next statement of the call goes to the pool handle
NeedsPool(p) == pc(p) \in {"idle", "createTask", "getByName", "createCategory",
                           "reread"}

PoolCall(p, userID, names) == PoolFree /\ Call(p, userID, names)
PoolCreateTask(p) == PoolFree /\ CreateTask(p)
PoolGetByName(p) == PoolFree /\ GetByName(p)
PoolCreateCategory(p) == PoolFree /\ CreateCategory(p)
PoolReread(p) == PoolFree /\ Reread(p)

NextPool ==
    \E p \in Procs :
        \/ \E userID \in {"u1"}, names \in NameLists : PoolCall(p, userID, names)
        \/ PoolCreateTask(p)
        \/ PoolGetByName(p)
        \/ PoolCreateCategory(p)
        \/ LinkCategory(p)
        \/ TxEnd(p)
        \/ PoolReread(p)

SpecPool == Init /\ [][NextPool]_vars

\* no two calls submitted a category name in common
DistinctNames ==
    \A p, q \in Procs : p # q => submitted[p].names \cap submitted[q].names = {}

\* C27: concurrent creations by one user with no category name in common,
\* no environment fault having occurred: while a call is in progress some
\* call can take its next step, every call that returned has succeeded, and
\* once all have returned the user's list holds one task per call
C27_ConcurrentCreationsAllSucceed ==
    (faults = 0 /\ DistinctNames) =>
        /\ \A p \in Procs :
               InProgress(p) =>
                   \E q \in Procs : InProgress(q) /\ (NeedsPool(q) => PoolFree)
        /\ \A p \in Procs : Done(p) => Succeeded(p)
        /\ (\A p \in Procs : Done(p)) =>
               Cardinality(GetByUserID(tasks, categories, task_categories, "u1"))
                   = NumCalls

====
